---- MODULE Spec2Model ----
(***************************************************************************)
(* A model of the OCI-layout image destination (package oci): PutBlob,     *)
(* PutManifest and PutSignatures acting on one layout directory, called    *)
(* from several goroutines.  Two revisions of the destination are in the   *)
(* sources: src/unnamed/part_002 (PutBlob stages into a temporary file and *)
(* renames it) and src/oci/oci_dest.go (PutBlob creates the final file and *)
(* copies into it).  Both are modelled; a run is a run of one revision,    *)
(* chosen in the initial state.                                            *)
(*                                                                         *)
(* Files are sequences of tokens (one token stands for one chunk of        *)
(* bytes).  A write at an offset, a truncating open and a rename are the   *)
(* atomic steps; everything the code does between two of them that touches *)
(* only locals of the call is part of the step that follows.  The          *)
(* operating system may fail every call whose error the code tests.        *)
(***************************************************************************)
EXTENDS Integers, Sequences, FiniteSets, TLC

\* ------------------------------------------------------------------ bounds
NumCalls == 2        \* calls made in one run, each from a goroutine of its own
MaxLen == 2          \* length of the blob stream, in chunks

Procs == 1..NumCalls
\* The suffixes ioutil.TempFile can draw: one for every call.
TempNames == 1..NumCalls

\* ------------------------------------------------------------ byte strings
\* A token is a pair <<key, value>> of strings.
Tok(k, v) == <<k, v>>

\* The stream of a layer blob: chunks a, b, a, b, ...
Chunk(i) == IF i % 2 = 1 THEN Tok("raw", "a") ELSE Tok("raw", "b")
BlobOfLen(n) == [i \in 1..n |-> Chunk(i)]
BlobContents == {BlobOfLen(MaxLen)}

NUL == Tok("raw", "nul")

\* pwrite(2): the file after writing data at offset off (a hole is zeroes).
WriteAt(file, off, data) ==
    LET end == off + Len(data)
        n   == IF Len(file) > end THEN Len(file) ELSE end
    IN [i \in 1..n |->
          IF i > off /\ i <= end THEN data[i - off]
          ELSE IF i <= Len(file) THEN file[i]
          ELSE NUL]

\* manifest.Digest of bytes that carry no schema 1 signatures: sha256 of the
\* bytes.  The hash is collision free: the digest names the byte string.
Digest(b) == <<"sha256", b>>

\* ociReference.blobPath: <dir>/blobs/<alg>-<hex>; the model keys the files
\* under blobs/ by the digest itself.
blobPath(digest) == digest

\* ------------------------------------------------------------------- state
VARIABLES
    rev,      \* the revision of the destination this run is built from
    dirs,     \* the directories that exist under the layout root
    blobs,    \* files at digest-addressed paths under blobs/: digest -> bytes
    temps,    \* staging files under blobs/: <<digest, suffix>> -> bytes
    refs,     \* descriptor files under refs/: tag -> bytes
    layout,   \* the oci-layout marker file: <<>> (absent) or <<bytes>>
    call      \* per goroutine: the call it is in, its locals and its result

\* The containers-storage side (package storage) and the string functions.
VARIABLES
    store,    \* the images of the storage.Store, in the store's order
    sref,     \* the storageReference the caller holds
    rcall,    \* the call on sref in progress: its receiver, locals and result
    probe     \* a function of the library applied to an input: its result

VARIABLES
    localManifests,   \* the manifests of the proxy's local store
    remoteManifests,  \* the manifests of the remote store
    scheduler,        \* the entries of the TTL expiration scheduler
    pget              \* the Get of the proxy manifest store in progress

ociVars == <<rev, dirs, blobs, temps, refs, layout, call>>
storageVars == <<store, sref, rcall>>
proxyVars == <<localManifests, remoteManifests, scheduler, pget>>
vars == <<rev, dirs, blobs, temps, refs, layout, call, store, sref, rcall, probe,
          localManifests, remoteManifests, scheduler, pget>>

\* No reference, no call and no function under way.
\* The empty string of a name, of a reference string and of an id is <<>>.
NoRef == [completeReference |-> <<>>, reference |-> <<>>, id |-> <<>>]
NoRCall ==
    [op |-> "none", pc |-> "idle", byValue |-> FALSE, s |-> NoRef, id0 |-> <<>>,
     img |-> <<>>, err |-> "nil", n |-> 0,
     \* bookkeeping of the run: the indexes consulted, the one that gave the
     \* id, a lookup the store failed, changes made by others
     consulted |-> {}, found |-> "none", fault |-> FALSE, changes |-> 0]
NoProbe == [fn |-> "none", input |-> <<>>, out |-> <<>>, pc |-> "idle"]
StorageIdle == store = <<>> /\ sref = NoRef /\ rcall = NoRCall
ProbeIdle == probe = NoProbe
NoGet ==
    [pc |-> "idle", dgst |-> "", manifest |-> <<>>, fromRemote |-> FALSE,
     err |-> "nil", trace |-> <<>>, n |-> 0]
ProxyIdle ==
    /\ localManifests = {} /\ remoteManifests = {}
    /\ scheduler = {} /\ pget = NoGet

\* src/unnamed/part_002 and src/oci/oci_dest.go
Revisions == {"staging", "direct"}

\* Partial maps as functions with a growing domain.
Put(f, k, v) == [x \in (DOMAIN f) \cup {k} |-> IF x = k THEN v ELSE f[x]]
Remove(f, k) == [x \in (DOMAIN f) \ {k} |-> f[x]]
\* The file at k: <<>> when absent, <<bytes>> when present.
FileAt(f, k) == IF k \in DOMAIN f THEN <<f[k]>> ELSE <<>>

\* What a call finds in the store when it starts.
Snapshot == [blobs |-> blobs, refs |-> refs, layout |-> layout]
NoSnapshot == [blobs |-> <<>>, refs |-> <<>>, layout |-> <<>>]

ErrNil == "nil"
ErrIO == "an error of the operating system"
ErrCopy == "the error io.Copy returns"
ErrSizeMismatch == "Size mismatch when copying"

Idle ==
    [op |-> "none", pc |-> "idle", err |-> ErrNil,
     \* PutBlob
     digest |-> <<>>, stream |-> <<>>, expectedSize |-> -1,
     written |-> 0, size |-> 0, tmp |-> 0, succeeded |-> FALSE, eof |-> FALSE,
     \* PutManifest
     tag |-> "", m |-> <<>>, ociMan |-> <<>>, mt |-> "", data |-> <<>>,
     \* PutSignatures
     nsigs |-> 0,
     \* bookkeeping of the run, not program state
     pre |-> NoSnapshot, alone |-> TRUE, fault |-> FALSE]

Active(q) == call[q].pc \notin {"idle", "done"}

\* Goroutine p enters a call with locals rec.  alone records that no other
\* call has been in flight since the call started, and pre is kept for as
\* long as that is so.  Goroutines are numbered in the order in which they
\* make their call.
StartCall(p, rec) ==
    /\ UNCHANGED <<rev, storageVars, probe, proxyVars>>
    /\ \A q \in Procs : q < p => call[q].pc /= "idle"
    /\ call' = [q \in Procs |->
                IF q = p
                THEN IF \A r \in Procs \ {p} : ~Active(r)
                     THEN [rec EXCEPT !.pre = Snapshot, !.alone = TRUE]
                     ELSE [rec EXCEPT !.pre = NoSnapshot, !.alone = FALSE]
                ELSE IF call[q].pc = "idle" THEN call[q]
                ELSE [call[q] EXCEPT !.alone = FALSE, !.pre = NoSnapshot]]

Step(p, rec) ==
call' = [call EXCEPT ![p] = rec] /\ UNCHANGED <<rev, storageVars, probe, proxyVars>>

\* The call returns err without having registered a deferred function.
Fail(p, e) == Step(p, [call[p] EXCEPT !.pc = "done", !.err = e, !.fault = TRUE])

Init ==
    /\ rev \in Revisions
    /\ dirs \in {{}, {"blobs"}}        \* a fresh directory or one used before
    /\ blobs = <<>>
    /\ temps = <<>>
    /\ refs = <<>>
    /\ layout = <<>>
    /\ call = [p \in Procs |-> Idle]
    /\ StorageIdle
    /\ ProbeIdle
    /\ ProxyIdle

\* ------------------------------------------------- PutBlob (part_002:53-91)
ExpectedSizes == {-1, MaxLen - 1, MaxLen, MaxLen + 1}
TmpPath(c) == <<blobPath(c.digest), c.tmp>>

\* The caller names the blob by the digest of the bytes its stream is to
\* deliver; a read of the stream may fail at any point.
\* Lines 54-60: blobPath, ensureParentDirectoryExists.
PutBlobCall(p) ==
    /\ rev = "staging"
    /\ call[p].pc = "idle"
    /\ \E c \in BlobContents, e \in ExpectedSizes :
            \/ /\ StartCall(p, [Idle EXCEPT !.op = "PutBlob", !.pc = "tempfile",
                                           !.digest = Digest(c), !.stream = c,
                                           !.expectedSize = e])
               /\ dirs' = dirs \cup {"blobs"}
            \/ /\ "blobs" \notin dirs        \* os.MkdirAll fails
               /\ StartCall(p, [Idle EXCEPT !.op = "PutBlob", !.pc = "done",
                                           !.digest = Digest(c), !.stream = c,
                                           !.expectedSize = e,
                                           !.err = ErrIO, !.fault = TRUE])
               /\ UNCHANGED dirs
    /\ UNCHANGED <<blobs, temps, refs, layout>>

\* ioutil.TempFile draws suffixes until the name is one that does not exist;
\* which of the free names it ends on makes no difference to any call, the
\* model takes the first.
FreeName(prefix) ==
    CHOOSE n \in TempNames :
        /\ <<prefix, n>> \notin DOMAIN temps
        /\ \A k \in TempNames : k < n => <<prefix, k>> \in DOMAIN temps

\* Lines 61-71: ioutil.TempFile creates an empty file under a name that does
\* not exist yet; the deferred cleanup is registered.
PutBlobTempFile(p) ==
    /\ call[p].op = "PutBlob" /\ call[p].pc = "tempfile"
    /\ \/ LET n == FreeName(blobPath(call[p].digest)) IN
            /\ \E k \in TempNames : <<blobPath(call[p].digest), k>> \notin DOMAIN temps
            /\ temps' = Put(temps, <<blobPath(call[p].digest), n>>, <<>>)
            /\ Step(p, [call[p] EXCEPT !.pc = "copy", !.tmp = n])
       \/ /\ Fail(p, ErrIO)
          /\ UNCHANGED temps
    /\ UNCHANGED <<dirs, blobs, refs, layout>>

\* A size test that only catches a stream that ends early.
SizeMismatchShortOnly(expectedSize, size) == expectedSize /= -1 /\ size < expectedSize

\* Line 77: the size test.
SizeMismatch(expectedSize, size) == expectedSize /= -1 /\ size /= expectedSize

\* Line 68: the deferred function removes the staging file unless succeeded.
RemoveStaging(succeeded) == ~succeeded

\* Lines 66-71: the deferred function, run as PutBlob returns: the store's
\* staging files after it, for the call's locals c.
PutBlobDefer(c) ==
    IF RemoveStaging(c.succeeded) /\ TmpPath(c) \in DOMAIN temps
    THEN Remove(temps, TmpPath(c)) ELSE temps

\* PutBlob returns e from a point after line 71.
PutBlobReturn(p, c, e, fault) ==
    /\ temps' = PutBlobDefer(c)
    /\ Step(p, [c EXCEPT !.pc = "done", !.err = e, !.fault = fault])

\* Lines 73-85: io.Copy moves one chunk per step and counts it in written;
\* it ends at io.EOF, at a read error of the stream or at a write error, and
\* only at io.EOF does PutBlob look at the count.  blobFile.Sync and
\* blobFile.Chmod(0644) follow the size test; they change no file content
\* and either can fail.
PutBlobCopy(p) ==
    LET c == call[p] IN
    /\ c.op = "PutBlob" /\ c.pc = "copy"
    /\ \/ /\ c.written < Len(c.stream)
          /\ temps' = [temps EXCEPT ![TmpPath(c)] = Append(@, c.stream[c.written + 1])]
          /\ Step(p, [c EXCEPT !.written = c.written + 1])
       \/ \* stream.Read fails, here or at end of stream, or the write does
          PutBlobReturn(p, [c EXCEPT !.written = 0], ErrCopy, TRUE)
       \/ /\ c.written = Len(c.stream)                           \* io.EOF
          /\ LET r == [c EXCEPT !.written = 0, !.size = c.written, !.eof = TRUE] IN
             IF SizeMismatch(c.expectedSize, r.size)
             THEN PutBlobReturn(p, r, ErrSizeMismatch, FALSE)
             ELSE \/ /\ Step(p, [r EXCEPT !.pc = "rename"])
                     /\ UNCHANGED temps
                  \/ PutBlobReturn(p, r, ErrIO, TRUE)
    /\ UNCHANGED <<dirs, blobs, refs, layout>>

\* Line 87: what PutBlob returns when os.Rename fails.
RenameFailureResult == ErrNil

\* Lines 86-90: os.Rename replaces the final path by the staging file in one
\* step; when it fails the staging file stays, for the deferred function.
PutBlobRename(p) ==
    LET c == call[p] IN
    /\ c.op = "PutBlob" /\ c.pc = "rename"
    /\ \/ /\ blobs' = Put(blobs, blobPath(c.digest), temps[TmpPath(c)])
          /\ temps' = Remove(temps, TmpPath(c))
          /\ Step(p, [c EXCEPT !.pc = "done", !.succeeded = TRUE])
       \/ /\ PutBlobReturn(p, c, RenameFailureResult, TRUE)
          /\ UNCHANGED blobs
    /\ UNCHANGED <<dirs, refs, layout>>

\* ---------------------------------------- PutBlob (oci/oci_dest.go:113-129)
\* This revision has no expectedSize and no staging file.
\* Lines 114-116: ensureParentDirectoryExists("blobs").
DirectPutBlobCall(p) ==
    /\ rev = "direct"
    /\ call[p].pc = "idle"
    /\ \E c \in BlobContents :
            \/ /\ StartCall(p, [Idle EXCEPT !.op = "DirectPutBlob", !.pc = "create",
                                           !.digest = Digest(c), !.stream = c])
               /\ dirs' = dirs \cup {"blobs"}
            \/ /\ "blobs" \notin dirs        \* os.MkdirAll fails
               /\ StartCall(p, [Idle EXCEPT !.op = "DirectPutBlob", !.pc = "done",
                                           !.digest = Digest(c), !.stream = c,
                                           !.err = ErrIO, !.fault = TRUE])
               /\ UNCHANGED dirs
    /\ UNCHANGED <<blobs, temps, refs, layout>>

\* Lines 117-121: os.Create opens the final path, truncating what is there.
DirectPutBlobCreate(p) ==
    LET c == call[p] IN
    /\ c.op = "DirectPutBlob" /\ c.pc = "create"
    /\ \/ /\ blobs' = Put(blobs, blobPath(c.digest), <<>>)
          /\ Step(p, [c EXCEPT !.pc = "copy"])
       \/ /\ Fail(p, ErrIO)
          /\ UNCHANGED blobs
    /\ UNCHANGED <<dirs, temps, refs, layout>>

\* Lines 122-128: io.Copy writes each chunk at this descriptor's own offset;
\* blob.Sync and the deferred Close follow it.
DirectPutBlobCopy(p) ==
    LET c == call[p] IN
    /\ c.op = "DirectPutBlob" /\ c.pc = "copy"
    /\ \/ /\ c.written < Len(c.stream)
          /\ blobs' = [blobs EXCEPT ![blobPath(c.digest)] =
                          WriteAt(@, c.written, <<c.stream[c.written + 1]>>)]
          /\ Step(p, [c EXCEPT !.written = c.written + 1])
       \/ \* stream.Read fails, here or at end of stream, or the write does
          /\ Step(p, [c EXCEPT !.pc = "done", !.written = 0, !.err = ErrCopy,
                               !.fault = TRUE])
          /\ UNCHANGED blobs
       \/ /\ c.written = Len(c.stream)                           \* io.EOF
          /\ LET r == [c EXCEPT !.pc = "done", !.written = 0, !.size = c.written,
                                !.eof = TRUE] IN
             \/ Step(p, r)
             \/ Step(p, [r EXCEPT !.err = ErrIO, !.fault = TRUE])
          /\ UNCHANGED blobs
    /\ UNCHANGED <<dirs, temps, refs, layout>>

\* The store under PutBlob calls only.
NextBlob ==
    \/ \E p \in Procs : PutBlobCall(p)
    \/ \E p \in Procs : PutBlobTempFile(p)
    \/ \E p \in Procs : PutBlobCopy(p)
    \/ \E p \in Procs : PutBlobRename(p)
    \/ \E p \in Procs : DirectPutBlobCall(p)
    \/ \E p \in Procs : DirectPutBlobCreate(p)
    \/ \E p \in Procs : DirectPutBlobCopy(p)

SpecBlob == Init /\ [][NextBlob]_vars

\* ------------------------------------------------------------- manifests
DockerV2Schema1MIMEType == "application/vnd.docker.distribution.manifest.v1+json"
DockerV2Schema2MIMEType == "application/vnd.docker.distribution.manifest.v2+json"
DockerV2ListMIMEType == "application/vnd.docker.distribution.manifest.list.v2+json"
OCIV1ImageManifestMIMEType == "application/vnd.oci.image.manifest.v1+json"
OCIV1ImageManifestListMIMEType == "application/vnd.oci.image.manifest.list.v1+json"
OCIV1ImageSerializationMIMEType == "application/vnd.oci.image.serialization.rootfs.tar.gzip"
OCIV1ImageSerializationConfigMIMEType == "application/vnd.oci.image.serialization.config.v1+json"
DockerConfigMIMEType == "application/vnd.docker.container.image.v1+json"
DockerLayerMIMEType == "application/vnd.docker.image.rootfs.diff.tar.gzip"

\* The value of the first token of m with key k, "" when there is none.
Field(m, k) ==
    IF \E i \in 1..Len(m) : m[i][1] = k
    THEN m[CHOOSE i \in 1..Len(m) : m[i][1] = k /\ \A j \in 1..(i - 1) : m[j][1] /= k][2]
    ELSE ""

\* manifest.GuessMIMEType: the mediaType field when it is one of the four
\* known to carry it, else a guess from schemaVersion, else "".
GuessMIMEType(m) ==
    IF Field(m, "mediaType") \in {DockerV2Schema2MIMEType, DockerV2ListMIMEType,
                                  OCIV1ImageManifestMIMEType,
                                  OCIV1ImageManifestListMIMEType}
    THEN Field(m, "mediaType")
    ELSE IF Field(m, "schemaVersion") = "1" THEN DockerV2Schema1MIMEType
    ELSE IF Field(m, "schemaVersion") = "2" THEN DockerV2Schema2MIMEType
    ELSE ""

\* type ociManifest (part_002:15-21), its zero value, and encoding/json on it:
\* Unmarshal keeps the fields the struct has, Marshal writes every field of
\* the struct in declaration order.
ZeroOciManifest ==
    [SchemaVersion |-> "0", MediaType |-> "", ConfigDigest |-> "",
     ConfigMediaType |-> "", Layers |-> <<>>, Annotations |-> "null"]

IsLayer(t) == t[1] = "layers.mediaType"
UnmarshalFails(m) == \E i \in 1..Len(m) : m[i] = Tok("layers", "not an array")
Unmarshal(m) ==
    [SchemaVersion |-> IF Field(m, "schemaVersion") = "" THEN "0"
                       ELSE Field(m, "schemaVersion"),
     MediaType |-> Field(m, "mediaType"),
     ConfigDigest |-> Field(m, "config.digest"),
     ConfigMediaType |-> Field(m, "config.mediaType"),
     Layers |-> [i \in 1..Len(SelectSeq(m, IsLayer)) |-> SelectSeq(m, IsLayer)[i][2]],
     Annotations |-> IF Field(m, "annotations") = "" THEN "null"
                     ELSE Field(m, "annotations")]
Marshal(om) ==
    << Tok("schemaVersion", om.SchemaVersion), Tok("mediaType", om.MediaType),
       Tok("config.digest", om.ConfigDigest),
       Tok("config.mediaType", om.ConfigMediaType) >>
    \o [i \in 1..Len(om.Layers) |-> Tok("layers.mediaType", om.Layers[i])]
    \o << Tok("annotations", om.Annotations) >>

ErrSchema1 == "can't create OCI manifest from Docker V2 schema 1 manifest"
ErrV2List == "can't create OCI manifest from Docker V2 schema 2 manifest list"
ErrOCIList == "can't create OCI manifest from OCI manifest list"
ErrUnrecognized == "Unrecognized manifest media type"
ErrUnmarshal == "json: cannot unmarshal"

\* A createManifest that lets manifest lists through unchanged.
createManifestListsPass(m) ==
    LET mt == GuessMIMEType(m)
    IN CASE mt = DockerV2Schema1MIMEType -> <<<<>>, "", ErrSchema1>>
         [] mt \in {DockerV2ListMIMEType, OCIV1ImageManifestListMIMEType,
                    OCIV1ImageManifestMIMEType} -> <<m, mt, ErrNil>>
         [] OTHER -> <<<<>>, "", ErrUnrecognized>>

\* createManifest (part_002:93-125): <<bytes to store, media type, error>>.
createManifest(m) ==
    LET om == ZeroOciManifest
        mt == GuessMIMEType(m)
    IN CASE mt = DockerV2Schema1MIMEType -> <<<<>>, "", ErrSchema1>>
         [] mt = DockerV2Schema2MIMEType ->
              IF UnmarshalFails(m) THEN <<<<>>, "", ErrUnmarshal>>
              ELSE LET om2 == [Unmarshal(m) EXCEPT
                                 !.MediaType = OCIV1ImageManifestMIMEType,
                                 !.Layers = [i \in DOMAIN @ |->
                                               OCIV1ImageSerializationMIMEType],
                                 !.ConfigMediaType =
                                     OCIV1ImageSerializationConfigMIMEType]
                   IN <<Marshal(om2), om2.MediaType, ErrNil>>
         [] mt = DockerV2ListMIMEType -> <<<<>>, "", ErrV2List>>
         [] mt = OCIV1ImageManifestListMIMEType -> <<<<>>, "", ErrOCIList>>
         [] mt = OCIV1ImageManifestMIMEType -> <<m, om.MediaType, ErrNil>>
         [] OTHER -> <<<<>>, "", ErrUnrecognized>>

\* The manifests callers hand to PutManifest.
V2S2Manifest ==
    << Tok("schemaVersion", "2"), Tok("mediaType", DockerV2Schema2MIMEType),
       Tok("config.digest", "sha256:c1"),
       Tok("config.mediaType", DockerConfigMIMEType),
       Tok("layers.mediaType", DockerLayerMIMEType) >>
OCIManifest ==
    << Tok("schemaVersion", "2"), Tok("mediaType", OCIV1ImageManifestMIMEType),
       Tok("config.digest", "sha256:c1"),
       Tok("config.mediaType", OCIV1ImageSerializationConfigMIMEType),
       Tok("layers.mediaType", OCIV1ImageSerializationMIMEType) >>
V2S2Malformed ==
    << Tok("schemaVersion", "2"), Tok("mediaType", DockerV2Schema2MIMEType),
       Tok("layers", "not an array") >>
V2ListManifest ==
    << Tok("schemaVersion", "2"), Tok("mediaType", DockerV2ListMIMEType) >>
OCIListManifest ==
    << Tok("schemaVersion", "2"), Tok("mediaType", OCIV1ImageManifestListMIMEType) >>
V2S1Manifest == << Tok("schemaVersion", "1"), Tok("fsLayers", "sha256:l1") >>
NotAManifest == << Tok("raw", "a") >>

Manifests == {V2S2Manifest, OCIManifest, V2S2Malformed,
              V2ListManifest, OCIListManifest, V2S1Manifest, NotAManifest}
\* The tags of the references destinations are made for.
Tags == {"latest", "notlatest"}

\* type descriptor (part_002:23-27) and json.Marshal / json.Unmarshal on it.
\* The record is as long as its values are: the characters of a media type
\* are a chunk of their own, which the record of an empty media type lacks.
MarshalDescriptor(desc) ==
    << Tok("digest", desc.Digest), Tok("mediaType", "") >>
    \o (IF desc.MediaType = "" THEN <<>> ELSE << Tok("chars", desc.MediaType) >>)
    \o << Tok("size", desc.Size) >>
\* json.Unmarshal accepts one complete record and nothing after it.
IsDescriptor(b) ==
    /\ Len(b) \in {3, 4}
    /\ b[1][1] = "digest" /\ b[2] = Tok("mediaType", "")
    /\ Len(b) = 4 => b[3][1] = "chars"
    /\ b[Len(b)][1] = "size"
ParseDescriptor(b) ==
    [Digest |-> b[1][2],
     MediaType |-> IF Len(b) = 4 THEN b[3][2] ELSE "",
     Size |-> b[Len(b)][2]]

\* PutManifest lines 138-142: the descriptor of the bytes ociMan with media
\* type mt, built while m is the caller's input.
descDigest(m, ociMan) == Digest(ociMan)
\* A descriptor size taken from the caller's bytes.
descSizeOfInput(m, ociMan) == Len(m)
descSize(m, ociMan) == Len(ociMan)
descMediaType(mt) == mt

LayoutMarker == << Tok("imageLayoutVersion", "1.0.0") >>

\* --------------------------------------------- PutManifest (part_002:127-164)
\* The locals of a PutManifest call on input m for the reference's tag.
ManifestCall(op, m, tag) ==
    LET r == createManifest(m)
        desc == [Digest |-> descDigest(m, r[1]), MediaType |-> descMediaType(r[2]),
                 Size |-> descSize(m, r[1])]
    IN IF r[3] /= ErrNil
       THEN [Idle EXCEPT !.op = op, !.pc = "done", !.m = m, !.tag = tag,
                         !.err = r[3]]
       ELSE [Idle EXCEPT !.op = op, !.pc = "blobOpen", !.m = m, !.tag = tag,
                         !.ociMan = r[1], !.mt = r[2],
                         !.digest = desc.Digest, !.data = MarshalDescriptor(desc)]

\* Lines 130-151: createManifest, manifest.Digest, the descriptor, blobPath.
PutManifestCall(p) ==
    /\ rev = "staging"
    /\ call[p].pc = "idle"
    /\ \E m \in Manifests, tag \in Tags : StartCall(p, ManifestCall("PutManifest", m, tag))
    /\ UNCHANGED <<dirs, blobs, temps, refs, layout>>

\* oci/oci_dest.go:79-102: as above, after ensureParentDirectoryExists("refs").
DirectPutManifestCall(p) ==
    /\ rev = "direct"
    /\ call[p].pc = "idle"
    /\ \E m \in Manifests, tag \in Tags :
         \/ /\ StartCall(p, ManifestCall("DirectPutManifest", m, tag))
            /\ dirs' = dirs \cup {"refs"}
         \/ /\ "refs" \notin dirs            \* os.MkdirAll fails
            /\ StartCall(p, [Idle EXCEPT !.op = "DirectPutManifest", !.pc = "done",
                                        !.m = m, !.tag = tag,
                                        !.err = ErrIO, !.fault = TRUE])
            /\ UNCHANGED dirs
    /\ UNCHANGED <<blobs, temps, refs, layout>>

IsPutManifest(c) == c.op \in {"PutManifest", "DirectPutManifest"}

\* ioutil.WriteFile is OpenFile(O_WRONLY|O_CREATE|O_TRUNC), Write, Close: the
\* file is empty between the open and the write.
\* Line 152, the open of the blob path; neither revision creates blobs/ here.
PutManifestBlobOpen(p) ==
    LET c == call[p] IN
    /\ IsPutManifest(c) /\ c.pc = "blobOpen"
    /\ \/ /\ "blobs" \in dirs
          /\ blobs' = Put(blobs, blobPath(c.digest), <<>>)
          /\ Step(p, [c EXCEPT !.pc = "blobWrite"])
       \/ /\ Fail(p, ErrIO)
          /\ UNCHANGED blobs
    /\ UNCHANGED <<dirs, temps, refs, layout>>

\* Line 152, the write of the manifest bytes.
PutManifestBlobWrite(p) ==
    LET c == call[p] IN
    /\ IsPutManifest(c) /\ c.pc = "blobWrite"
    /\ \/ /\ blobs' = [blobs EXCEPT ![blobPath(c.digest)] = WriteAt(@, 0, c.ociMan)]
          /\ Step(p, [c EXCEPT !.pc = "layoutOpen"])
       \/ /\ Fail(p, ErrIO)
          /\ UNCHANGED blobs
    /\ UNCHANGED <<dirs, temps, refs, layout>>

\* Line 156: WriteFile of the oci-layout marker, open and write.
PutManifestLayoutOpen(p) ==
    LET c == call[p] IN
    /\ IsPutManifest(c) /\ c.pc = "layoutOpen"
    /\ \/ /\ layout' = << <<>> >>
          /\ Step(p, [c EXCEPT !.pc = "layoutWrite"])
       \/ /\ Fail(p, ErrIO)
          /\ UNCHANGED layout
    /\ UNCHANGED <<dirs, blobs, temps, refs>>

PutManifestLayoutWrite(p) ==
    LET c == call[p] IN
    /\ IsPutManifest(c) /\ c.pc = "layoutWrite"
    /\ \/ /\ layout' = << WriteAt(layout[1], 0, LayoutMarker) >>
          /\ Step(p, [c EXCEPT !.pc = "descOpen"])
       \/ /\ Fail(p, ErrIO)
          /\ UNCHANGED layout
    /\ UNCHANGED <<dirs, blobs, temps, refs>>

\* Lines 159-163: ensureParentDirectoryExists(descriptorPath) (part_002 only)
\* and the open of refs/<tag>.
PutManifestDescOpen(p) ==
    LET c == call[p] IN
    /\ IsPutManifest(c) /\ c.pc = "descOpen"
    /\ \/ /\ c.op = "PutManifest" \/ "refs" \in dirs
          /\ dirs' = dirs \cup {"refs"}
          /\ refs' = Put(refs, c.tag, <<>>)
          /\ Step(p, [c EXCEPT !.pc = "descWrite"])
       \/ /\ Fail(p, ErrIO)
          /\ UNCHANGED <<dirs, refs>>
    /\ UNCHANGED <<blobs, temps, layout>>

\* Line 163: the write of the descriptor record.
PutManifestDescWrite(p) ==
    LET c == call[p] IN
    /\ IsPutManifest(c) /\ c.pc = "descWrite"
    /\ \/ /\ refs' = [refs EXCEPT ![c.tag] = WriteAt(@, 0, c.data)]
          /\ Step(p, [c EXCEPT !.pc = "done"])
       \/ /\ Fail(p, ErrIO)
          /\ UNCHANGED refs
    /\ UNCHANGED <<dirs, blobs, temps, layout>>

\* ------------------------------------------- PutSignatures (part_002:184-189)
MaxSigs == 2
Signature == << Tok("raw", "sig") >>
SignatureSets == UNION {[1..n -> {Signature}] : n \in 0..MaxSigs}
ErrSignatures == "Pushing signatures for OCI images is not supported"

\* A PutSignatures that drops the signatures without a word.
PutSignaturesDrops(signatures) == ErrNil

\* Lines 185-188.
PutSignaturesResult(signatures) ==
    IF Len(signatures) /= 0 THEN ErrSignatures ELSE ErrNil

PutSignatures(p) ==
    /\ call[p].pc = "idle"
    /\ \E signatures \in SignatureSets :
         StartCall(p, [Idle EXCEPT !.op = "PutSignatures", !.pc = "done",
                                    !.nsigs = Len(signatures),
                                    !.err = PutSignaturesResult(signatures)])
    /\ UNCHANGED <<dirs, blobs, temps, refs, layout>>

\* The store under PutManifest and PutSignatures calls only.
NextManifest ==
    \/ \E p \in Procs : PutManifestCall(p)
    \/ \E p \in Procs : DirectPutManifestCall(p)
    \/ \E p \in Procs : PutManifestBlobOpen(p)
    \/ \E p \in Procs : PutManifestBlobWrite(p)
    \/ \E p \in Procs : PutManifestLayoutOpen(p)
    \/ \E p \in Procs : PutManifestLayoutWrite(p)
    \/ \E p \in Procs : PutManifestDescOpen(p)
    \/ \E p \in Procs : PutManifestDescWrite(p)
    \/ \E p \in Procs : PutSignatures(p)

SpecManifest == Init /\ [][NextManifest]_vars

\* ================================================================ properties
IsPutBlob(c) == c.op \in {"PutBlob", "DirectPutBlob"}
Done(c) == c.pc = "done"
\* The file at the final path of the call's digest, now and when it started.
FinalNow(c) == FileAt(blobs, blobPath(c.digest))
FinalBefore(c) == FileAt(c.pre.blobs, blobPath(c.digest))
\* The call holds a staging file that is still in the store.
HasStaging(c) == c.tmp /= 0 /\ TmpPath(c) \in DOMAIN temps

\* C1: the file at a digest-addressed path under blobs/ is absent or holds
\* the complete bytes of that digest, in every state PutBlob calls can reach;
\* no reader sees a partial file and no complete blob is truncated.
C1_FinalPathAbsentOrComplete ==
    \A d \in DOMAIN blobs : Digest(blobs[d]) = d

\* C2: when PutBlob has returned an error, no staging file of the call is
\* left and the final path holds what it held before the call (where no
\* other call ran meanwhile).
C2_ErrorLeavesNoTrace ==
    \A p \in Procs :
        LET c == call[p] IN
        (IsPutBlob(c) /\ Done(c) /\ c.err /= ErrNil /\ c.alone)
            => (~HasStaging(c) /\ FinalNow(c) = FinalBefore(c))

\* C3: PutBlob returns success only after the whole stream was copied and
\* expectedSize is -1 or the number of bytes copied; when the copy ended with
\* a count other than a given expectedSize the call fails with the size
\* mismatch error, its staging file is gone and the final path is as before.
C3_SizeChecked ==
    \A p \in Procs :
        LET c == call[p] IN
        (IsPutBlob(c) /\ Done(c)) =>
            /\ c.eof => c.size = Len(c.stream)
            /\ c.err = ErrNil =>
                 (c.eof /\ (c.expectedSize = -1 \/ c.expectedSize = Len(c.stream)))
            /\ (c.eof /\ c.expectedSize /= -1 /\ c.expectedSize /= Len(c.stream)) =>
                 /\ c.err = ErrSizeMismatch
                 /\ c.alone => (~HasStaging(c) /\ FinalNow(c) = FinalBefore(c))

\* A PutBlob call has failed on a stream longer or shorter than expectedSize.
C3_Witness ==
    \E p \in Procs :
        LET c == call[p] IN
        /\ c.op = "PutBlob" /\ Done(c) /\ c.eof
        /\ c.expectedSize /= -1 /\ c.expectedSize /= Len(c.stream)
        /\ c.err = ErrSizeMismatch

\* C4: when PutBlob has returned success the complete blob is at its final
\* path (a failed rename is an error).
C4_SuccessMeansPublished ==
    \A p \in Procs :
        LET c == call[p] IN
        (IsPutBlob(c) /\ Done(c) /\ c.err = ErrNil /\ c.alone)
            => FinalNow(c) = <<c.stream>>

\* C5: two PutBlob calls of the same digest and bytes, neither hit by an
\* error of the stream or of the operating system: while both hold their file
\* open each has a staging file of its own, and once both have returned both
\* report success, the final path holds the bytes and no staging file of
\* that digest is left.
Healthy(c) ==
    IsPutBlob(c) /\ ~c.fault /\ ~SizeMismatch(c.expectedSize, Len(c.stream))
Writing(c) == c.pc \in {"copy", "rename"}
C5_ConcurrentSameDigest ==
    \A p, q \in Procs :
        LET c == call[p]
            e == call[q]
        IN (p /= q /\ Healthy(c) /\ Healthy(e) /\ c.digest = e.digest) =>
             /\ (Writing(c) /\ Writing(e)) =>
                   (HasStaging(c) /\ HasStaging(e) /\ TmpPath(c) /= TmpPath(e))
             /\ (Done(c) /\ Done(e)) =>
                   /\ c.err = ErrNil /\ e.err = ErrNil
                   /\ FinalNow(c) = <<c.stream>>
                   /\ \A n \in TempNames : <<blobPath(c.digest), n>> \notin DOMAIN temps

\* The descriptor record of a tag and the blob it names.
DescOf(tag) == ParseDescriptor(refs[tag])
HasDescriptor(tag) == tag \in DOMAIN refs /\ IsDescriptor(refs[tag])
StoredFor(tag) == FileAt(blobs, blobPath(DescOf(tag).Digest))
StoreAsBefore(c) ==
    blobs = c.pre.blobs /\ refs = c.pre.refs /\ layout = c.pre.layout

\* C6: every complete descriptor record under refs/ names a digest whose
\* manifest blob is completely present under blobs/, in every state that
\* PutManifest calls can reach, between any two of their write steps and after
\* their errors.  Stated for calls made one after the other, none overlapping
\* another.
Sequential == \A p \in Procs : call[p].pc /= "idle" => call[p].alone \/ Done(call[p])
C6_DescriptorNamesCompleteBlob ==
    Sequential =>
        \A t \in DOMAIN refs :
            IsDescriptor(refs[t]) =>
                /\ StoredFor(t) /= <<>>
                /\ Digest(StoredFor(t)[1]) = DescOf(t).Digest

\* C7: after a successful PutManifest (no other call running meanwhile) the
\* tag's descriptor carries the digest and the length of the bytes stored in
\* the blob it names; for a Docker schema 2 input those bytes are the
\* translation, not the input, and for an OCI input they are the input.
C7_DescriptorMatchesStoredBytes ==
    \A p \in Procs :
        LET c == call[p] IN
        (IsPutManifest(c) /\ Done(c) /\ c.err = ErrNil /\ c.alone) =>
            /\ HasDescriptor(c.tag)
            /\ StoredFor(c.tag) /= <<>>
            /\ LET stored == StoredFor(c.tag)[1]
                   desc == DescOf(c.tag)
               IN /\ desc.Digest = Digest(stored)
                  /\ desc.Size = Len(stored)
                  /\ Field(c.m, "mediaType") = DockerV2Schema2MIMEType =>
                        /\ stored /= c.m
                        /\ desc.Digest /= Digest(c.m)
                        /\ Field(stored, "mediaType") = OCIV1ImageManifestMIMEType
                  /\ Field(c.m, "mediaType") = OCIV1ImageManifestMIMEType =>
                        stored = c.m

\* A PutManifest of a Docker schema 2 manifest has succeeded.
C7_Witness ==
    \E p \in Procs :
        LET c == call[p] IN
        /\ IsPutManifest(c) /\ Done(c) /\ c.err = ErrNil /\ c.alone
        /\ c.m = V2S2Manifest
        /\ HasDescriptor(c.tag) /\ DescOf(c.tag).Size = Len(V2S2Manifest) + 1

\* C8: after a successful PutManifest the descriptor's mediaType is the media
\* type of the stored manifest, and never empty.
C8_MediaTypeRecorded ==
    \A p \in Procs :
        LET c == call[p] IN
        (IsPutManifest(c) /\ Done(c) /\ c.err = ErrNil /\ c.alone) =>
            /\ HasDescriptor(c.tag)
            /\ StoredFor(c.tag) /= <<>>
            /\ DescOf(c.tag).MediaType = Field(StoredFor(c.tag)[1], "mediaType")
            /\ DescOf(c.tag).MediaType /= ""

\* C9: a PutManifest of a manifest list, of a schema 1 manifest or of bytes of
\* no known media type has returned an error and (no other call running
\* meanwhile) no blob, descriptor or marker file was created or changed.
Rejected == {V2ListManifest, OCIListManifest, V2S1Manifest, NotAManifest}
C9_RejectedPersistsNothing ==
    \A p \in Procs :
        LET c == call[p] IN
        (IsPutManifest(c) /\ c.m \in Rejected) =>
            /\ Done(c) /\ c.err /= ErrNil
            /\ c.alone => StoreAsBefore(c)

\* A manifest list was rejected by a store that already holds a manifest.
C9_Witness ==
    \E p \in Procs :
        LET c == call[p] IN
        /\ IsPutManifest(c) /\ c.m = V2ListManifest /\ Done(c)
        /\ c.err = ErrV2List /\ c.alone
        /\ c.pre.refs /= <<>> /\ StoreAsBefore(c)

\* C10: PutSignatures has returned an error exactly when the signature set
\* was not empty, and (no other call running meanwhile) the store is as it
\* was.
C10_SignaturesRejected ==
    \A p \in Procs :
        LET c == call[p] IN
        c.op = "PutSignatures" =>
            /\ Done(c)
            /\ c.nsigs /= 0 => c.err = ErrSignatures
            /\ c.nsigs = 0 => c.err = ErrNil
            /\ c.alone => StoreAsBefore(c)

\* A non-empty signature set was refused by a store that holds a manifest.
C10_Witness ==
    \E p \in Procs :
        LET c == call[p] IN
        /\ c.op = "PutSignatures" /\ c.nsigs = MaxSigs /\ c.err = ErrSignatures
        /\ c.alone /\ c.pre.refs /= <<>> /\ StoreAsBefore(c)

\* C11: two PutManifest calls for the same tag with different manifests have
\* both returned success, and no other call was made: the tag's descriptor
\* record is, as a whole, the record one of the two calls wrote, and the
\* manifest blobs of both are present.
C11_LastWriterWins ==
    \A p, q \in Procs :
        LET c == call[p]
            e == call[q]
        IN (/\ p /= q /\ c.op = "PutManifest" /\ e.op = "PutManifest"
            /\ Done(c) /\ Done(e) /\ c.err = ErrNil /\ e.err = ErrNil
            /\ c.tag = e.tag /\ c.m /= e.m
            /\ \A r \in Procs \ {p, q} : call[r].pc = "idle") =>
               /\ FileAt(refs, c.tag) \in {<<c.data>>, <<e.data>>}
               /\ FileAt(blobs, blobPath(c.digest)) = <<c.ociMan>>
               /\ FileAt(blobs, blobPath(e.digest)) = <<e.ociMan>>

\* ============================================ package storage: references
MaxImages == 2       \* images in the store
MaxChanges == 1      \* changes other users of the store make during a call
MaxResolves == 2     \* calls made on the reference

\* A name is <<repository, tag, digest>>; a repository is its path components.
Name(repo, tag, digest) == <<repo, tag, digest>>
RepoOf(name) == name[1]
IsDigested(name) == name[3] /= ""
Repos == {<<"a", "b">>, <<"x">>}
TaggedNames == {Name(r, "latest", "") : r \in Repos}
DigestedNames == {Name(r, "", "dg1") : r \in Repos}
ImageDigests == {"dg1", "dg2"}
ID(n) == <<"id", n>>
UnknownID == ID(0)

\* storage.Image: ID, Names, Digest.  The store keeps IDs apart and gives a
\* name to one image at most.
IsStore(st) ==
    /\ \A i \in DOMAIN st : st[i].ID /= UnknownID
    /\ \A i, j \in DOMAIN st :
          i /= j => (st[i].ID /= st[j].ID /\ st[i].Names \cap st[j].Names = {})
ImagesAt(n) ==
    [ID : {ID(n)}, Names : SUBSET TaggedNames, Digest : ImageDigests]
StoresOfLen(k) ==
    {st \in [1..k -> UNION {ImagesAt(n) : n \in 1..k}] :
        (\A i \in 1..k : st[i].ID = ID(i)) /\ IsStore(st)}
Stores == UNION {StoresOfLen(k) : k \in 0..MaxImages}

\* newReference (lines 28-40): the references the transport makes have a
\* name, an id or both, and reference is the string of completeReference.
RefIDs == {<<>>, UnknownID} \cup {ID(n) : n \in 1..MaxImages}
References ==
    {r \in [completeReference : {<<>>} \cup TaggedNames \cup DigestedNames,
            reference : {<<>>} \cup TaggedNames \cup DigestedNames,
            id : RefIDs] :
        /\ r.reference = r.completeReference
        /\ r.completeReference /= <<>> \/ r.id /= <<>>}

ErrNoSuchImage == "identifier is not an image"
ErrReadingImage == "error reading image"
ErrDeleting == "error deleting image"

\* store.Image(key): the image with that ID or with that name, <<>> for none.
StoreImage(st, key) ==
    LET hits == {i \in DOMAIN st : st[i].ID = key \/ key \in st[i].Names}
    IN IF hits = {} THEN <<>> ELSE << st[CHOOSE i \in hits : TRUE] >>

\* store.ImagesByDigest(d): the images of that digest, in the store's order.
ImagesByDigest(st, d) ==
    LET idx == {i \in DOMAIN st : st[i].Digest = d}
        Nth[k \in 1..Cardinality(idx)] ==
            CHOOSE i \in idx : Cardinality({j \in idx : j < i}) = k - 1
    IN [k \in 1..Cardinality(idx) |-> st[Nth[k]]]

\* An imageMatchesRepo that takes any image.
imageMatchesAnyRepo(image, ref) == TRUE

\* imageMatchesRepo (lines 42-53).
imageMatchesRepo(image, ref) ==
    \E name \in image.Names : RepoOf(name) = RepoOf(ref)

\* A choice among the images of the digest that does not look at their names.
FirstOfDigest(images, ref) == IF Len(images) > 0 THEN 1 ELSE 0

\* Lines 72-77: the index of the first image of the same repository, 0 when
\* there is none.
FirstInRepo(images, ref) ==
    LET ok == {k \in 1..Len(images) : imageMatchesRepo(images[k], ref)}
    IN IF ok = {} THEN 0 ELSE CHOOSE k \in ok : \A j \in ok : k <= j

\* A name lookup that is made whatever the reference holds.
AlwaysNameLookup(s) == TRUE

\* Line 58: the name is looked up only for a reference without an id.
NeedsNameLookup(s) == s.id = <<>>

\* Line 65: the digest index is searched for a digested name without an id.
NeedsDigestLookup(s) ==
    s.id = <<>> /\ s.completeReference /= <<>> /\ IsDigested(s.completeReference)

InitResolve ==
    /\ rev = "staging" /\ dirs = {} /\ blobs = <<>> /\ temps = <<>>
    /\ refs = <<>> /\ layout = <<>> /\ call = [p \in Procs |-> Idle]
    /\ store \in Stores
    /\ sref \in References
    /\ rcall = NoRCall
    /\ ProbeIdle
    /\ ProxyIdle

\* A step of the call: resolveImage has a pointer receiver, so what it
\* assigns to s.id lands in the value it was called on.  That value is the
\* caller's reference, or the copy a method with a value receiver works on.
RStep(rc) ==
    /\ rcall' = rc
    /\ sref' = IF rc.byValue THEN sref ELSE rc.s
    /\ UNCHANGED <<ociVars, probe, proxyVars>>

EnterCall(op, byValue) ==
    /\ rcall.pc = "idle" /\ rcall.n < MaxResolves
    /\ RStep([NoRCall EXCEPT !.op = op, !.pc = "byName", !.byValue = byValue,
                             !.s = sref, !.id0 = sref.id, !.n = rcall.n + 1])
    /\ UNCHANGED store

\* s.resolveImage() called on the reference itself.
ResolveImageCall ==
    /\ rcall.op = "none"
    /\ EnterCall("resolveImage", FALSE)

\* DeleteImage (lines 179-192) has a value receiver: s is a copy.
DeleteImageCall ==
    /\ rcall.op = "none"
    /\ EnterCall("DeleteImage", TRUE)

\* Lines 58-64: the explicit name.  A failed lookup is passed over.
ResolveByName ==
    /\ rcall.pc = "byName"
    /\ IF NeedsNameLookup(rcall.s)
       THEN LET rc == [rcall EXCEPT !.pc = "byDigest",
                                    !.consulted = @ \cup {"name"}]
                image == StoreImage(store, rcall.s.reference)
            IN \/ RStep(IF image /= <<>>
                        THEN [rc EXCEPT !.s.id = image[1].ID, !.found = "name"]
                        ELSE rc)
               \/ RStep([rc EXCEPT !.fault = TRUE])          \* err /= nil
       ELSE RStep([rcall EXCEPT !.pc = "byDigest"])
    /\ UNCHANGED store

\* Lines 65-80: the digest of a digested name.
ResolveByDigest ==
    /\ rcall.pc = "byDigest"
    /\ IF NeedsDigestLookup(rcall.s)
       THEN LET rc == [rcall EXCEPT !.pc = "byId",
                                    !.consulted = @ \cup {"digest"}]
                images == ImagesByDigest(store, rcall.s.completeReference[3])
                k == FirstInRepo(images, rcall.s.completeReference)
            IN \/ RStep(IF k /= 0
                        THEN [rc EXCEPT !.s.id = images[k].ID, !.found = "digest"]
                        ELSE rc)
               \/ RStep([rc EXCEPT !.fault = TRUE])          \* err /= nil
       ELSE RStep([rcall EXCEPT !.pc = "byId"])
    /\ UNCHANGED store

\* Lines 81-95: no id, the image of the id, its names against the reference.
ResolveById ==
    /\ rcall.pc = "byId"
    /\ LET after == IF rcall.op = "DeleteImage" THEN "delete" ELSE "done"
           rc == [rcall EXCEPT !.consulted = @ \cup {"id"}]
           img == StoreImage(store, rcall.s.id)
       IN IF rcall.s.id = <<>>
          THEN RStep([rcall EXCEPT !.pc = "done", !.err = ErrNoSuchImage])
          ELSE \/ /\ img /= <<>>
                  /\ IF rcall.s.completeReference /= <<>>
                        /\ ~imageMatchesRepo(img[1], rcall.s.completeReference)
                     THEN RStep([rc EXCEPT !.pc = "done", !.err = ErrNoSuchImage])
                     ELSE RStep([rc EXCEPT !.pc = after, !.img = img])
               \/ RStep([rc EXCEPT !.pc = "done", !.err = ErrReadingImage,
                                   !.fault = (img /= <<>>)])
    /\ UNCHANGED store

\* Line 184: store.DeleteImage(img.ID, true).
DeleteImageStore ==
    /\ rcall.pc = "delete"
    /\ \/ /\ \E i \in DOMAIN store : store[i].ID = rcall.img[1].ID
          /\ store' = SelectSeq(store, LAMBDA im : im.ID /= rcall.img[1].ID)
          /\ RStep([rcall EXCEPT !.pc = "done"])
       \/ /\ UNCHANGED store
          /\ RStep([rcall EXCEPT !.pc = "done", !.err = ErrDeleting])

\* The caller has the result; the reference can be used again.
ResolveReturn ==
    /\ rcall.pc = "done"
    /\ rcall' = [NoRCall EXCEPT !.n = rcall.n]
    /\ UNCHANGED <<ociVars, probe, proxyVars, store, sref>>

\* Another user of the store removes an image or renames one while the call
\* is between two of its lookups.
StoreChanges ==
    /\ rcall.pc \notin {"idle", "done"} /\ rcall.changes < MaxChanges
    /\ \E i \in DOMAIN store :
          \/ store' = SelectSeq(store, LAMBDA im : im.ID /= store[i].ID)
          \/ \E names \in SUBSET TaggedNames :
                /\ names /= store[i].Names
                /\ store' = [store EXCEPT ![i].Names = names]
                /\ IsStore(store')
    /\ RStep([rcall EXCEPT !.changes = @ + 1])

NextResolve ==
    \/ ResolveImageCall
    \/ DeleteImageCall
    \/ ResolveByName
    \/ ResolveByDigest
    \/ ResolveById
    \/ DeleteImageStore
    \/ ResolveReturn
    \/ StoreChanges

SpecResolve == InitResolve /\ [][NextResolve]_vars

\* ------------------------------------------------ properties of resolveImage
\* resolveImage has returned (DeleteImage goes on to delete on success).
Resolved == rcall.pc \in {"done", "delete"} /\ rcall.err /= ErrDeleting
\* Nothing but the call has touched the store and no lookup failed.
Quiet ==
    /\ rcall.changes = 0 /\ ~rcall.fault
    /\ rcall.pc = "delete" \/ rcall.op = "resolveImage" \/ rcall.err /= "nil"
NameHit == StoreImage(store, rcall.s.reference)

\* C12: resolveImage tries its sources in order: a reference with an id uses
\* it and consults neither the name index nor the digest index; otherwise a
\* match of the name in the name index is used and the digest index is left
\* alone; otherwise, for a digested name, the digest index is searched; when
\* none gives an id the call fails with ErrNoSuchImage.
C12_ResolveOrder ==
    Resolved =>
        /\ rcall.id0 /= <<>> =>
              (rcall.consulted \subseteq {"id"} /\ rcall.s.id = rcall.id0)
        /\ rcall.id0 = <<>> => "name" \in rcall.consulted
        /\ rcall.found = "name" => "digest" \notin rcall.consulted
        /\ (rcall.id0 = <<>> /\ Quiet /\ NameHit /= <<>>) =>
              (rcall.found = "name" /\ rcall.s.id = NameHit[1].ID)
        /\ "digest" \in rcall.consulted =>
              (rcall.found /= "name" /\ IsDigested(rcall.s.completeReference))
        /\ (rcall.id0 = <<>> /\ rcall.found /= "name" /\ ~rcall.fault
               /\ rcall.s.completeReference /= <<>>
               /\ IsDigested(rcall.s.completeReference)) =>
              "digest" \in rcall.consulted
        /\ (rcall.id0 = <<>> /\ rcall.found = "none") =>
              (rcall.err = ErrNoSuchImage /\ rcall.img = <<>>
               /\ "id" \notin rcall.consulted)

\* A reference without an id was resolved through the digest index, and one
\* with an id through the id alone.
C12_Witness ==
    /\ Resolved /\ rcall.err = "nil" /\ rcall.id0 = <<>>
    /\ rcall.found = "digest" /\ rcall.consulted = {"name", "digest", "id"}

\* C13: in the digest fallback the image chosen is the first of the digest
\* index's result that has a name of the reference's repository; an image of
\* that digest known under other repositories only is never chosen, and when
\* every image of the digest is of another repository the call fails with
\* ErrNoSuchImage.
SameRepo(image) ==
    \E name \in image.Names : name[1] = rcall.s.completeReference[1]
OfDigest == ImagesByDigest(store, rcall.s.completeReference[3])
Designated == StoreImage(store, rcall.s.id)
C14_StaleIdRejected ==
    (Resolved /\ rcall.s.completeReference /= <<>>) =>
        /\ rcall.img /= <<>> => SameRepo(rcall.img[1])
        /\ rcall.err = "nil" => rcall.img /= <<>>
        /\ rcall.err /= "nil" => rcall.img = <<>>
        /\ (Quiet /\ Designated /= <<>> /\ ~SameRepo(Designated[1])) =>
              (rcall.err = ErrNoSuchImage /\ rcall.img = <<>>)

\* A reference with a name and the id of an image of another repository was
\* refused.
C14_Witness ==
    /\ Resolved /\ Quiet /\ rcall.s.completeReference /= <<>>
    /\ rcall.id0 /= <<>> /\ Designated /= <<>>
    /\ Designated[1].Names /= {} /\ ~SameRepo(Designated[1])
    /\ rcall.err = ErrNoSuchImage /\ rcall.img = <<>>

\* C15: the id of the reference the caller holds is written once: it is
\* empty until a resolveImage of the reference succeeds, still empty after
\* one that returned an error, set to the image's ID after one that succeeded
\* (also when reached through DeleteImage), never changed once set, and the
\* other fields of the reference are as they were.
C15_ResolvedIdWriteOnce ==
    Resolved =>
        /\ rcall.id0 /= <<>> => sref.id = rcall.id0
        /\ (rcall.id0 = <<>> /\ rcall.err /= "nil") => sref.id = <<>>
        /\ rcall.err = "nil" => sref.id = rcall.img[1].ID
        /\ sref.completeReference = rcall.s.completeReference
        /\ sref.reference = rcall.s.reference

\* ================================================================= strings
\* A string is a sequence of atoms; the delimiters the code writes and the
\* parsers look for are atoms of their own, so a name never holds one.
MaxOptions == 2      \* graph options of a store
MaxComponents == 3   \* path components of a repository name

RECURSIVE Join(_, _)
\* strings.Join(strs, sep)
Join(strs, sep) ==
    IF Len(strs) = 0 THEN <<>>
    ELSE IF Len(strs) = 1 THEN strs[1]
    ELSE strs[1] \o <<sep>> \o Join(Tail(strs), sep)

\* strings.Index / strings.LastIndex, counted from 1; 0 for no occurrence.
Index(str, sep) ==
    LET at == {i \in 1..Len(str) : str[i] = sep}
    IN IF at = {} THEN 0 ELSE CHOOSE i \in at : \A j \in at : i <= j
LastIndex(str, sep) ==
    LET at == {i \in 1..Len(str) : str[i] = sep}
    IN IF at = {} THEN 0 ELSE CHOOSE i \in at : \A j \in at : i >= j

RECURSIVE Split(_, _)
\* strings.Split(str, sep)
Split(str, sep) ==
    IF Index(str, sep) = 0 THEN <<str>>
    ELSE <<SubSeq(str, 1, Index(str, sep) - 1)>>
         \o Split(SubSeq(str, Index(str, sep) + 1, Len(str)), sep)

\* The string of a name: repository, then :tag or @digest.
NameString(name) ==
    Join([i \in 1..Len(name[1]) |-> <<name[1][i]>>], "/")
    \o (IF name[2] /= "" THEN <<":", name[2]>> ELSE <<>>)
    \o (IF name[3] /= "" THEN <<"@", "sha256", ":", name[3]>> ELSE <<>>)

\* The store a reference is bound to: what GraphDriverName, GraphRoot,
\* RunRoot and GraphOptions return.
Options == {<<"o1">>, <<"o2", "=", "v">>}
OptionLists == UNION {[1..n -> Options] : n \in 0..MaxOptions}
Locators ==
    [driver : {<<"overlay">>}, graphRoot : {<<"/", "root">>},
     runRoot : {<<"/", "run">>}, options : OptionLists]

\* Repository names of one to MaxComponents components: a, a/b, a/b/c, ...
Component(i) == IF i = 1 THEN "a" ELSE IF i = 2 THEN "b" ELSE "c"
RepoOfDepth(n) == [i \in 1..n |-> Component(i)]
DeepRepos == {RepoOfDepth(n) : n \in 1..MaxComponents}
ProbeNames ==
    {Name(r, "tag", "") : r \in DeepRepos} \cup {Name(r, "", "dg1") : r \in DeepRepos}
IdStrings == {<<"0123abcd">>}
\* The references of newReference, with the strings of their fields.
ProbeRefs ==
    {r \in [completeReference : {<<>>} \cup ProbeNames,
            reference : {<<>>} \cup {NameString(n) : n \in ProbeNames},
            id : {<<>>} \cup IdStrings] :
        /\ r.completeReference = <<>> => r.reference = <<>>
        /\ r.completeReference /= <<>> => r.reference = NameString(r.completeReference)
        /\ r.completeReference /= <<>> \/ r.id /= <<>>}

\* A StringWithinTransport that writes the id right after the name.
StringWithinTransportNoAt(loc, s) ==
    <<"[">> \o loc.driver \o <<"@">> \o loc.graphRoot \o <<"+">> \o loc.runRoot
    \o (IF Len(loc.options) > 0 THEN <<":">> \o Join(loc.options, ",") ELSE <<>>)
    \o <<"]">> \o s.reference \o s.id

\* StringWithinTransport (lines 119-133) of reference s of the store loc.
StringWithinTransport(loc, s) ==
    LET optionsList == IF Len(loc.options) > 0
                       THEN <<":">> \o Join(loc.options, ",") ELSE <<>>
        storeSpec == <<"[">> \o loc.driver \o <<"@">> \o loc.graphRoot
                     \o <<"+">> \o loc.runRoot \o optionsList \o <<"]">>
    IN IF s.reference = <<>> THEN storeSpec \o <<"@">> \o s.id
       ELSE IF s.id = <<>> THEN storeSpec \o s.reference
       ELSE storeSpec \o s.reference \o <<"@">> \o s.id

\* ----------------------------------------------------------------- parsing
\* The storage transport's ParseReference is not among the sources; it is
\* modelled from the specification's Parse: the store in brackets, then the
\* name and, after the last @, an id.
Delims == {"[", "]", "@", "+", ":", ",", "/"}
After(str, i) == SubSeq(str, i + 1, Len(str))
Before(str, i) == SubSeq(str, 1, i - 1)
IsRepoString(repo) ==
    /\ Len(repo) % 2 = 1
    /\ \A i \in 1..Len(repo) :
          IF i % 2 = 1 THEN repo[i] \notin Delims ELSE repo[i] = "/"
IsNameString(str) ==
    LET at == LastIndex(str, "@")
        base == IF at = 0 THEN str ELSE Before(str, at)
        dg == IF at = 0 THEN <<>> ELSE After(str, at)
        colon == Index(base, ":")
        repo == IF colon = 0 THEN base ELSE Before(base, colon)
        tag == IF colon = 0 THEN <<>> ELSE After(base, colon)
    IN /\ at /= 0 => (Len(dg) = 3 /\ dg[1] = "sha256" /\ dg[2] = ":"
                       /\ dg[3] \notin Delims)
       /\ colon /= 0 => (Len(tag) = 1 /\ tag[1] \notin Delims)
       /\ IsRepoString(repo)
IsID(str) == str \in IdStrings
NotParsed == [ok |-> FALSE, loc |-> <<>>, reference |-> <<>>, id |-> <<>>]
ParseStoreSpec(spec) ==
    LET at == Index(spec, "@")
        roots == After(spec, at)
        plus == Index(roots, "+")
        tail == After(roots, plus)
        colon == Index(tail, ":")
    IN IF at = 0 \/ plus = 0 THEN <<>>
       ELSE << [driver |-> Before(spec, at), graphRoot |-> Before(roots, plus),
                runRoot |-> IF colon = 0 THEN tail ELSE Before(tail, colon),
                options |-> IF colon = 0 THEN <<>>
                            ELSE Split(After(tail, colon), ",")] >>
ParseStoreReference(str) ==
    LET close == Index(str, "]")
        loc == ParseStoreSpec(SubSeq(str, 2, close - 1))
        rest == After(str, close)
        at == LastIndex(rest, "@")
        hasId == at /= 0 /\ IsID(After(rest, at))
        name == IF hasId THEN Before(rest, at) ELSE rest
    IN IF Len(str) = 0 \/ str[1] /= "[" \/ close = 0 THEN NotParsed
       ELSE IF loc = <<>> THEN NotParsed
       ELSE IF name = <<>> /\ ~hasId THEN NotParsed
       ELSE IF name /= <<>> /\ ~IsNameString(name) THEN NotParsed
       ELSE [ok |-> TRUE, loc |-> loc[1], reference |-> name,
             id |-> IF hasId THEN After(rest, at) ELSE <<>>]

\* The OCI transport's functions are not among the sources either; they are
\* modelled from oci_transport_test.go (lines 55-86 and 129-148): dir[:tag],
\* the tag latest by default, one colon at most, a tag of the allowed
\* characters.
ValidTags == {"latest", "notlatest", "tagValue"}
InvalidTag == "invalid'tag!value@"
OCINotParsed == [ok |-> FALSE, dir |-> <<>>, tag |-> ""]
OCIParseReference(str) ==
    LET parts == Split(str, ":")
        tag == IF Len(parts) = 1 THEN <<"latest">> ELSE parts[2]
    IN IF Len(parts) > 2 THEN OCINotParsed
       ELSE IF Len(tag) /= 1 \/ tag[1] \notin ValidTags THEN OCINotParsed
       ELSE [ok |-> TRUE, dir |-> parts[1], tag |-> tag[1]]
OCIStringWithinTransport(ref) == ref.dir \o <<":", ref.tag>>
OCIDirs ==
    {<<"/">>, <<"/", "etc">>, <<"relativepath">>, <<"/", "tmp", "/", "dir1">>}
OCIInputs ==
    OCIDirs
    \cup {d \o <<":", t>> : d \in OCIDirs, t \in ValidTags \cup {InvalidTag}}
    \cup {d \o <<":", "multiple", ":", "colons">> : d \in OCIDirs}

\* ------------------------------------------- functions applied to an input
ProbeOf(fn, inputs) ==
    {[fn |-> fn, input |-> x, out |-> <<>>, pc |-> "input"] : x \in inputs}
ProbeStep(pc, out) ==
    /\ probe' = [probe EXCEPT !.pc = pc, !.out = out]
    /\ UNCHANGED <<ociVars, storageVars, proxyVars>>

StorageStringInputs == [loc : Locators, s : ProbeRefs]

\* ref.StringWithinTransport() of a storage reference.
ProbeStringWithinTransport ==
    /\ probe.fn = "StringWithinTransport" /\ probe.pc = "input"
    /\ ProbeStep("printed",
                 [str |-> StringWithinTransport(probe.input.loc, probe.input.s),
                  parsed |-> NotParsed])

\* Transport.ParseReference of the string.
ProbeParseStoreReference ==
    /\ probe.fn = "StringWithinTransport" /\ probe.pc = "printed"
    /\ ProbeStep("done", [probe.out EXCEPT
                             !.parsed = ParseStoreReference(probe.out.str)])

\* ParseReference of the OCI transport, then StringWithinTransport.
ProbeOCIParseReference ==
    /\ probe.fn = "oci.ParseReference" /\ probe.pc = "input"
    /\ LET ref == OCIParseReference(probe.input)
       IN ProbeStep(IF ref.ok THEN "printed" ELSE "done",
                    [ref |-> ref,
                     str |-> IF ref.ok THEN OCIStringWithinTransport(ref) ELSE <<>>,
                     parsed |-> OCINotParsed])

\* Transport.ParseReference of the string (test line 143).
ProbeOCIReparse ==
    /\ probe.fn = "oci.ParseReference" /\ probe.pc = "printed"
    /\ ProbeStep("done", [probe.out EXCEPT
                             !.parsed = OCIParseReference(probe.out.str)])

\* --------------------- PolicyConfigurationNamespaces (storage, lines 150-168)
\* A loop step that drops the first component.
DropFirstComponent(components) == Tail(components)

\* Line 162: components = components[:len(components)-1].
DropLastComponent(components) == SubSeq(components, 1, Len(components) - 1)

RECURSIVE NamespacesOf(_, _)
\* Lines 160-163: the loop over the components left.
NamespacesOf(storeSpec, components) ==
    IF Len(components) = 0 THEN <<>>
    ELSE << storeSpec \o Join(components, "/") >>
         \o NamespacesOf(storeSpec, DropLastComponent(components))

\* completeReference.Name(): the repository, without tag and digest.
NameOnly(name) == NameString(Name(name[1], "", ""))

PolicyConfigurationNamespaces(loc, s) ==
    LET storeSpec == <<"[">> \o loc.driver \o <<"@">> \o loc.graphRoot \o <<"]">>
        driverlessStoreSpec == <<"[">> \o loc.graphRoot \o <<"]">>
    IN (IF s.completeReference /= <<>>
        THEN (IF s.id /= <<>> THEN << storeSpec \o s.reference >> ELSE <<>>)
             \o NamespacesOf(storeSpec, Split(NameOnly(s.completeReference), "/"))
        ELSE <<>>)
       \o << storeSpec, driverlessStoreSpec >>

ProbePolicyConfigurationNamespaces ==
    /\ probe.fn = "PolicyConfigurationNamespaces" /\ probe.pc = "input"
    /\ ProbeStep("done", PolicyConfigurationNamespaces(probe.input.loc,
                                                       probe.input.s))

\* ------------------------------ ValidatePolicyConfigurationScope (OCI)
\* Not among the sources; modelled from the specification's policy scope
\* validation and from oci_transport_test.go (lines 22-48): an optional tag
\* after the last colon, an absolute directory other than the bare root that
\* is its own filepath.Clean.
MaxScopeLen == 4     \* atoms of the directory part of a scope
ScopeAtoms == {"/", "etc", ".", ".."}
\* Every segment is one atom, so that a sequence stands for one string only.
ScopeDirs ==
    {d \in UNION {[1..n -> ScopeAtoms] : n \in 1..MaxScopeLen} :
        \A i \in 1..(Len(d) - 1) : d[i] = "/" \/ d[i + 1] = "/"}
ScopeTags ==
    {<<>>, <<":", "notlatest">>, <<":", "strangecornercase">>, <<":", InvalidTag>>,
     <<":", "with", "/", "colons">>, <<":", "with", ":", "tag">>}
Scopes == {d \o t : d \in ScopeDirs, t \in ScopeTags}
ScopeTagOK(tag) ==
    Len(tag) = 1 /\ tag[1] \in ValidTags \cup {"strangecornercase"}

RECURSIVE CleanSegments(_, _)
\* filepath.Clean of an absolute path, on its segments: empty and . segments
\* go, .. takes the segment before it with it.
CleanSegments(segs, acc) ==
    IF Len(segs) = 0 THEN acc
    ELSE IF Head(segs) \in {<<>>, <<".">>} THEN CleanSegments(Tail(segs), acc)
    ELSE IF Head(segs) = <<"..">>
         THEN CleanSegments(Tail(segs),
                            IF Len(acc) = 0 THEN acc ELSE SubSeq(acc, 1, Len(acc) - 1))
    ELSE CleanSegments(Tail(segs), Append(acc, Head(segs)))
Clean(dir) ==
    LET segs == CleanSegments(Split(Tail(dir), "/"), <<>>)
    IN <<"/">> \o Join(segs, "/")

\* A validation that takes any absolute directory.
ValidateScopeUncleaned(scope) ==
    LET sep == LastIndex(scope, ":")
        dir == IF sep = 0 THEN scope ELSE Before(scope, sep)
    IN IF sep /= 0 /\ ~ScopeTagOK(After(scope, sep)) THEN "invalid tag"
       ELSE IF Len(dir) = 0 \/ dir[1] /= "/" THEN "invalid scope: must be an absolute path"
       ELSE "nil"

ValidatePolicyConfigurationScope(scope) ==
    LET sep == LastIndex(scope, ":")
        dir == IF sep = 0 THEN scope ELSE Before(scope, sep)
    IN IF sep /= 0 /\ ~ScopeTagOK(After(scope, sep)) THEN "invalid tag"
       ELSE IF Index(dir, ":") /= 0 THEN "invalid scope: too many colons"
       ELSE IF Len(dir) = 0 \/ dir[1] /= "/" THEN "invalid scope: must be an absolute path"
       ELSE IF scope = <<"/">> THEN "invalid scope /: use the generic default scope"
       ELSE IF Clean(dir) /= dir THEN "invalid scope: uses non-canonical format"
       ELSE "nil"

ProbeValidatePolicyConfigurationScope ==
    /\ probe.fn = "ValidatePolicyConfigurationScope" /\ probe.pc = "input"
    /\ ProbeStep("done", ValidatePolicyConfigurationScope(probe.input))

\* ------------------------------------------------ signing and verification
\* Manifests: two that can be digested and one that cannot.
SignedManifests == {"image.manifest", "unexpected manifest", "invalid-signatures.manifest"}
ComputeDigest(m) ==
    IF m = "invalid-signatures.manifest"
    THEN [ok |-> FALSE, digest |-> <<>>]
    ELSE [ok |-> TRUE, digest |-> <<"sha256", m>>]

\* References: empty, bare, and two fully qualified ones.
SignatureReferences ==
    {<<>>, <<"busybox">>, <<"testing", "/", "manifest", ":", "latest">>,
     <<"other", "/", "repo", ":", "latest">>}
FullyQualified(ref) == Index(ref, ":") /= 0 \/ Index(ref, "@") /= 0

\* Keys: the mechanism knows two; a third identity is unknown to it.
KnownKeys == {"fingerprint1", "fingerprint2"}
KeyIdentities == KnownKeys \cup {"unexpected fingerprint"}

\* The serialized envelope, and its parsing.
SerializeEnvelope(ref, digest) ==
    << <<"docker-reference">> \o ref, <<"docker-manifest-digest">> \o digest >>
IsEnvelope(payload) ==
    /\ Len(payload) = 2
    /\ Len(payload[1]) >= 1 /\ payload[1][1] = "docker-reference"
    /\ Len(payload[2]) >= 1 /\ payload[2][1] = "docker-manifest-digest"
ParseEnvelope(payload) ==
    [dockerReference |-> Tail(payload[1]), dockerManifestDigest |-> Tail(payload[2])]

\* The signing mechanism: a detached signature names its signer and carries
\* the payload; a corrupt one does not authenticate.
MechanismSign(payload, keyIdentity) ==
    IF keyIdentity \in KnownKeys
    THEN [ok |-> TRUE, blob |-> [signer |-> keyIdentity, payload |-> payload, intact |-> TRUE]]
    ELSE [ok |-> FALSE, blob |-> <<>>]
MechanismVerify(blob) ==
    IF blob.intact /\ blob.signer \in KnownKeys
    THEN [ok |-> TRUE, payload |-> blob.payload, signer |-> blob.signer]
    ELSE [ok |-> FALSE, payload |-> <<>>, signer |-> ""]

SignFailed(e) == [blob |-> <<>>, err |-> e]
\* A signing that leaves the reference out of the envelope.
SignDockerManifestUnbound(m, ref, keyIdentity) ==
    LET d == ComputeDigest(m)
        signed == MechanismSign(SerializeEnvelope(<<>>, d.digest), keyIdentity)
    IN IF ~d.ok THEN SignFailed("ManifestDigestError")
       ELSE IF ~FullyQualified(ref) THEN SignFailed("InvalidReference")
       ELSE IF ~signed.ok THEN SignFailed("SigningError")
       ELSE [blob |-> <<signed.blob>>, err |-> "nil"]

SignDockerManifest(m, ref, keyIdentity) ==
    LET d == ComputeDigest(m)
        signed == MechanismSign(SerializeEnvelope(ref, d.digest), keyIdentity)
    IN IF ~d.ok THEN SignFailed("ManifestDigestError")
       ELSE IF ~FullyQualified(ref) THEN SignFailed("InvalidReference")
       ELSE IF ~signed.ok THEN SignFailed("SigningError")
       ELSE [blob |-> <<signed.blob>>, err |-> "nil"]

VerifyFailed(e) == [sig |-> <<>>, err |-> e]
\* A verification that takes any authenticated signer.
VerifyAnySigner(blob, m, expectedReference, expectedKeyIdentity) ==
    LET d == ComputeDigest(m)
        auth == MechanismVerify(blob)
        env == ParseEnvelope(auth.payload)
    IN IF ~d.ok THEN VerifyFailed("ManifestDigestError")
       ELSE IF ~auth.ok THEN VerifyFailed("SignatureInvalid")
       ELSE IF ~IsEnvelope(auth.payload) THEN VerifyFailed("SignatureInvalid")
       ELSE IF env.dockerReference /= expectedReference THEN VerifyFailed("ReferenceMismatch")
       ELSE IF env.dockerManifestDigest /= d.digest THEN VerifyFailed("DigestMismatch")
       ELSE [sig |-> << [DockerReference |-> env.dockerReference,
                         DockerManifestDigest |-> env.dockerManifestDigest] >>,
             err |-> "nil"]

\* A verification that takes any signed reference.
VerifyAnyReference(blob, m, expectedReference, expectedKeyIdentity) ==
    LET d == ComputeDigest(m)
        auth == MechanismVerify(blob)
        env == ParseEnvelope(auth.payload)
    IN IF ~d.ok THEN VerifyFailed("ManifestDigestError")
       ELSE IF ~auth.ok THEN VerifyFailed("SignatureInvalid")
       ELSE IF ~IsEnvelope(auth.payload) THEN VerifyFailed("SignatureInvalid")
       ELSE IF auth.signer /= expectedKeyIdentity THEN VerifyFailed("KeyMismatch")
       ELSE IF env.dockerManifestDigest /= d.digest THEN VerifyFailed("DigestMismatch")
       ELSE [sig |-> << [DockerReference |-> env.dockerReference,
                         DockerManifestDigest |-> env.dockerManifestDigest] >>,
             err |-> "nil"]

\* A verification that authenticates the signature before it digests the
\* manifest.
VerifyAuthenticatesFirst(blob, m, expectedReference, expectedKeyIdentity) ==
    LET d == ComputeDigest(m)
        auth == MechanismVerify(blob)
        env == ParseEnvelope(auth.payload)
    IN IF ~auth.ok THEN VerifyFailed("SignatureInvalid")
       ELSE IF ~IsEnvelope(auth.payload) THEN VerifyFailed("SignatureInvalid")
       ELSE IF ~d.ok THEN VerifyFailed("ManifestDigestError")
       ELSE IF auth.signer /= expectedKeyIdentity THEN VerifyFailed("KeyMismatch")
       ELSE IF env.dockerReference /= expectedReference THEN VerifyFailed("ReferenceMismatch")
       ELSE IF env.dockerManifestDigest /= d.digest THEN VerifyFailed("DigestMismatch")
       ELSE [sig |-> << [DockerReference |-> env.dockerReference,
                         DockerManifestDigest |-> env.dockerManifestDigest] >>,
             err |-> "nil"]

VerifyDockerManifestSignature(blob, m, expectedReference, expectedKeyIdentity) ==
    LET d == ComputeDigest(m)
        auth == MechanismVerify(blob)
        env == ParseEnvelope(auth.payload)
    IN IF ~d.ok THEN VerifyFailed("ManifestDigestError")
       ELSE IF ~auth.ok THEN VerifyFailed("SignatureInvalid")
       ELSE IF ~IsEnvelope(auth.payload) THEN VerifyFailed("SignatureInvalid")
       ELSE IF auth.signer /= expectedKeyIdentity THEN VerifyFailed("KeyMismatch")
       ELSE IF env.dockerReference /= expectedReference THEN VerifyFailed("ReferenceMismatch")
       ELSE IF env.dockerManifestDigest /= d.digest THEN VerifyFailed("DigestMismatch")
       ELSE [sig |-> << [DockerReference |-> env.dockerReference,
                         DockerManifestDigest |-> env.dockerManifestDigest] >>,
             err |-> "nil"]

\* Signing, then what becomes of the signature before it is verified: kept,
\* corrupted, or replaced by an authentic signature over a payload that is no
\* envelope.
Tampers == {"none", "corrupt", "no envelope"}
Tampered(blob, how) ==
    IF how = "corrupt" THEN [blob EXCEPT !.intact = FALSE]
    ELSE IF how = "no envelope" THEN [blob EXCEPT !.payload = <<"garbage">>]
    ELSE blob
SignInputs ==
    [m : SignedManifests, ref : SignatureReferences, key : KeyIdentities,
     tamper : Tampers,
     vm : SignedManifests, vref : SignatureReferences, vkey : KeyIdentities]

ProbeSignDockerManifest ==
    /\ probe.fn = "SignDockerManifest" /\ probe.pc = "input"
    /\ LET r == SignDockerManifest(probe.input.m, probe.input.ref, probe.input.key)
       IN ProbeStep(IF r.err = "nil" THEN "signed" ELSE "done",
                    [signed |-> r, verified |-> VerifyFailed("not verified")])

ProbeVerifyDockerManifestSignature ==
    /\ probe.fn = "SignDockerManifest" /\ probe.pc = "signed"
    /\ ProbeStep("done",
          [probe.out EXCEPT !.verified =
              VerifyDockerManifestSignature(
                  Tampered(probe.out.signed.blob[1], probe.input.tamper),
                  probe.input.vm, probe.input.vref, probe.input.vkey)])

ProbeInputs ==
    ProbeOf("StringWithinTransport", StorageStringInputs)
    \cup ProbeOf("oci.ParseReference", OCIInputs)
    \cup ProbeOf("PolicyConfigurationNamespaces", StorageStringInputs)
    \cup ProbeOf("ValidatePolicyConfigurationScope", Scopes)
    \cup ProbeOf("SignDockerManifest", SignInputs)

InitProbe ==
    /\ rev = "staging" /\ dirs = {} /\ blobs = <<>> /\ temps = <<>>
    /\ refs = <<>> /\ layout = <<>> /\ call = [p \in Procs |-> Idle]
    /\ StorageIdle
    /\ ProxyIdle
    /\ probe \in ProbeInputs

NextProbe ==
    \/ ProbeStringWithinTransport
    \/ ProbeParseStoreReference
    \/ ProbeOCIParseReference
    \/ ProbeOCIReparse
    \/ ProbePolicyConfigurationNamespaces
    \/ ProbeValidatePolicyConfigurationScope
    \/ ProbeSignDockerManifest
    \/ ProbeVerifyDockerManifestSignature

SpecProbe == InitProbe /\ [][NextProbe]_vars

\* ------------------------------------------------- the proxy manifest store
\* src/unnamed/part_003
MaxGets == 2         \* calls of Get in one run

repositoryName == "library/busybox"
ProxyDigests == {"sha256:m1", "sha256:m2"}
\* A manifest of a store: its digest, and whether Payload() gives its bytes.
ProxyManifests == [dgst : ProxyDigests, payloadOK : BOOLEAN]
\* The contents a manifest service can have: one manifest a digest at most.
ManifestServices ==
    {ms \in SUBSET ProxyManifests :
        \A a, b \in ms : a.dgst = b.dgst => a = b}
ManifestsAt(ms, dgst) == {m \in ms : m.dgst = dgst}

ErrUnknownManifest == "manifest unknown"
ErrPayload == "the error of Payload"
ErrPut == "the error of Put"

\* What Get has called so far: the callee, its argument, and whether the
\* callee succeeded.
Called(callee, arg, ok) == <<callee, arg, ok>>
GStep(g, called) ==
    /\ pget' = [g EXCEPT !.trace = pget.trace \o called]
    /\ UNCHANGED <<ociVars, storageVars, probe, remoteManifests>>

InitProxy ==
    /\ rev = "staging" /\ dirs = {} /\ blobs = <<>> /\ temps = <<>>
    /\ refs = <<>> /\ layout = <<>> /\ call = [p \in Procs |-> Idle]
    /\ StorageIdle
    /\ ProbeIdle
    /\ localManifests \in ManifestServices
    /\ remoteManifests \in ManifestServices
    /\ scheduler = {}
    /\ pget = NoGet

\* Line 37: Get(ctx, dgst).
ProxyGetCall ==
    /\ pget.pc = "idle" /\ pget.n < MaxGets
    /\ \E dgst \in ProxyDigests :
          GStep([NoGet EXCEPT !.pc = "local", !.dgst = dgst, !.n = pget.n + 1], <<>>)
    /\ UNCHANGED <<localManifests, scheduler>>

\* Lines 41-42: localManifests.Get; any error sends Get to the remote store.
ProxyLocalGet ==
    /\ pget.pc = "local"
    /\ \/ \E m \in ManifestsAt(localManifests, pget.dgst) :
             GStep([pget EXCEPT !.pc = "payload", !.manifest = <<m>>],
                   << Called("localManifests.Get", pget.dgst, TRUE) >>)
       \/ GStep([pget EXCEPT !.pc = "remote"],
                << Called("localManifests.Get", pget.dgst, FALSE) >>)
    /\ UNCHANGED <<localManifests, scheduler>>

\* Lines 43-47: remoteManifests.Get.
ProxyRemoteGet ==
    /\ pget.pc = "remote"
    /\ \/ \E m \in ManifestsAt(remoteManifests, pget.dgst) :
             GStep([pget EXCEPT !.pc = "payload", !.manifest = <<m>>,
                                !.fromRemote = TRUE],
                   << Called("remoteManifests.Get", pget.dgst, TRUE) >>)
       \/ GStep([pget EXCEPT !.pc = "done", !.err = ErrUnknownManifest],
                << Called("remoteManifests.Get", pget.dgst, FALSE) >>)
    /\ UNCHANGED <<localManifests, scheduler>>

\* Lines 50-57: manifest.Payload() and the metrics; a manifest of the local
\* store is returned here (line 71).
ProxyPayload ==
    /\ pget.pc = "payload"
    /\ IF ~pget.manifest[1].payloadOK
       THEN GStep([pget EXCEPT !.pc = "done", !.manifest = <<>>, !.err = ErrPayload],
                  << Called("manifest.Payload", pget.dgst, FALSE) >>)
       ELSE IF pget.fromRemote
       THEN GStep([pget EXCEPT !.pc = "put"],
                  << Called("manifest.Payload", pget.dgst, TRUE),
                     Called("proxyMetrics.ManifestPush", pget.dgst, TRUE),
                     Called("proxyMetrics.ManifestPull", pget.dgst, TRUE) >>)
       ELSE GStep([pget EXCEPT !.pc = "done"],
                  << Called("manifest.Payload", pget.dgst, TRUE),
                     Called("proxyMetrics.ManifestPush", pget.dgst, TRUE) >>)
    /\ UNCHANGED <<localManifests, scheduler>>

\* A Get that goes on to the scheduler whatever Put returned.
AfterPutAlwaysSchedules(g, ok) == [g EXCEPT !.pc = "schedule"]

\* Lines 60-62: the error of Put ends the call.
AfterPut(g, ok) ==
    IF ok THEN [g EXCEPT !.pc = "schedule"]
    ELSE [g EXCEPT !.pc = "done", !.manifest = <<>>, !.err = ErrPut]

\* Lines 59-62: localManifests.Put(ctx, manifest).
ProxyLocalPut ==
    /\ pget.pc = "put"
    /\ \/ /\ localManifests' =
                (localManifests \ ManifestsAt(localManifests, pget.dgst))
                \cup {pget.manifest[1]}
          /\ GStep(AfterPut(pget, TRUE),
                   << Called("localManifests.Put", pget.dgst, TRUE) >>)
       \/ /\ UNCHANGED localManifests
          /\ GStep(AfterPut(pget, FALSE),
                   << Called("localManifests.Put", pget.dgst, FALSE) >>)
    /\ UNCHANGED scheduler

\* Lines 64-71: the repository and the manifest's blob are scheduled for
\* removal, and the manifest is returned.
ProxySchedule ==
    /\ pget.pc = "schedule"
    /\ scheduler' = scheduler \cup {<<"manifest", repositoryName>>,
                                     <<"blob", pget.dgst>>}
    /\ GStep([pget EXCEPT !.pc = "done"],
             << Called("scheduler.AddManifest", repositoryName, TRUE),
                Called("scheduler.AddBlob", pget.dgst, TRUE) >>)
    /\ UNCHANGED localManifests

\* The caller has the result.
ProxyGetReturn ==
    /\ pget.pc = "done"
    /\ pget' = [NoGet EXCEPT !.n = pget.n]
    /\ UNCHANGED <<ociVars, storageVars, probe, localManifests, remoteManifests,
                   scheduler>>

NextProxy ==
    \/ ProxyGetCall
    \/ ProxyLocalGet
    \/ ProxyRemoteGet
    \/ ProxyPayload
    \/ ProxyLocalPut
    \/ ProxySchedule
    \/ ProxyGetReturn

SpecProxy == InitProxy /\ [][NextProxy]_vars

\* ------------------------------------------------------- the whole program
Next == NextBlob \/ NextManifest \/ NextResolve \/ NextProbe \/ NextProxy

Spec == Init /\ [][Next]_vars

\* C16: the string StringWithinTransport gives for a reference parses, through
\* the same transport, to a reference of the same store, name and id, whose
\* StringWithinTransport is the same string: for storage references with a
\* name, an id or both, and for OCI references with a given or default tag.
C16_RoundTrip ==
    /\ (probe.fn = "StringWithinTransport" /\ probe.pc = "done") =>
          /\ probe.out.parsed.ok
          /\ probe.out.parsed.loc = probe.input.loc
          /\ probe.out.parsed.reference = probe.input.s.reference
          /\ probe.out.parsed.id = probe.input.s.id
          /\ StringWithinTransport(probe.out.parsed.loc, probe.out.parsed)
                = probe.out.str
    /\ (probe.fn = "oci.ParseReference" /\ probe.pc = "done" /\ probe.out.ref.ok) =>
          /\ probe.out.parsed = probe.out.ref
          /\ OCIStringWithinTransport(probe.out.parsed) = probe.out.str
          /\ Index(probe.input, ":") = 0 => probe.out.ref.tag = "latest"

\* A reference with a digested name and an id, of a store with options, went
\* through the round trip.
C16_Witness ==
    /\ probe.fn = "StringWithinTransport" /\ probe.pc = "done"
    /\ probe.input.s.id /= <<>> /\ probe.input.s.completeReference /= <<>>
    /\ IsDigested(probe.input.s.completeReference)
    /\ Len(probe.input.loc.options) = MaxOptions
    /\ probe.out.parsed.ok

\* C17: PolicyConfigurationNamespaces gives, in this order and nothing else:
\* the store with the reference's name and tag, for a reference with a name
\* and an id only; for a reference with a name, the store with every prefix
\* of the repository from the whole down to its first component; the store;
\* the store without its driver.
StoreSpecOf(loc) == <<"[">> \o loc.driver \o <<"@">> \o loc.graphRoot \o <<"]">>
DriverlessOf(loc) == <<"[">> \o loc.graphRoot \o <<"]">>
PrefixString(repo, k) == Join([i \in 1..k |-> <<repo[i]>>], "/")
ExpectedNamespaces(loc, s) ==
    LET repo == IF s.completeReference = <<>> THEN <<>> ELSE s.completeReference[1]
        n == Len(repo)
    IN (IF n > 0 /\ s.id /= <<>> THEN << StoreSpecOf(loc) \o s.reference >> ELSE <<>>)
       \o [i \in 1..n |-> StoreSpecOf(loc) \o PrefixString(repo, n - i + 1)]
       \o << StoreSpecOf(loc), DriverlessOf(loc) >>
C17_NamespaceOrder ==
    (probe.fn = "PolicyConfigurationNamespaces" /\ probe.pc = "done") =>
        /\ probe.out = ExpectedNamespaces(probe.input.loc, probe.input.s)
        /\ (probe.input.s.completeReference = Name(<<"a", "b", "c">>, "tag", "")
               /\ probe.input.s.id /= <<>> /\ probe.input.loc.options = <<>>) =>
              probe.out =
                << <<"[", "overlay", "@", "/", "root", "]", "a", "/", "b", "/", "c", ":", "tag">>,
                   <<"[", "overlay", "@", "/", "root", "]", "a", "/", "b", "/", "c">>,
                   <<"[", "overlay", "@", "/", "root", "]", "a", "/", "b">>,
                   <<"[", "overlay", "@", "/", "root", "]", "a">>,
                   <<"[", "overlay", "@", "/", "root", "]">>,
                   <<"[", "/", "root", "]">> >>
        /\ probe.input.s.completeReference = <<>> =>
              probe.out = << StoreSpecOf(probe.input.loc),
                             DriverlessOf(probe.input.loc) >>

\* The namespaces of a/b:tag with an id were computed.
C17_Witness ==
    /\ probe.fn = "PolicyConfigurationNamespaces" /\ probe.pc = "done"
    /\ probe.input.s.completeReference = Name(<<"a", "b">>, "tag", "")
    /\ probe.input.s.id /= <<>>
    /\ Len(probe.out) = 5

\* C18: ValidatePolicyConfigurationScope of the OCI transport refuses a scope
\* whose directory is relative, is the bare root, has a . or .. segment, a
\* doubled slash or a trailing slash, or whose tag is invalid, holds a slash
\* or follows a further colon; it accepts every other scope.
ScopeSep == LastIndex(probe.input, ":")
ScopeDir == IF ScopeSep = 0 THEN probe.input ELSE Before(probe.input, ScopeSep)
ScopeTag == After(probe.input, ScopeSep)
BadScope ==
    \/ Len(ScopeDir) = 0 \/ ScopeDir[1] /= "/"
    \/ probe.input = <<"/">>
    \/ \E i \in 1..Len(ScopeDir) :
          /\ ScopeDir[i] \in {".", ".."}
          /\ ScopeDir[i - 1] = "/"
          /\ i = Len(ScopeDir) \/ ScopeDir[i + 1] = "/"
    \/ \E i \in 1..(Len(ScopeDir) - 1) : ScopeDir[i] = "/" /\ ScopeDir[i + 1] = "/"
    \/ Len(ScopeDir) > 1 /\ ScopeDir[Len(ScopeDir)] = "/"
    \/ ScopeSep /= 0 /\ (Len(ScopeTag) /= 1 \/ ScopeTag[1] = InvalidTag)
    \/ \E i \in 1..Len(ScopeDir) : ScopeDir[i] = ":"
C18_ScopeValidation ==
    (probe.fn = "ValidatePolicyConfigurationScope" /\ probe.pc = "done") =>
        (probe.out /= "nil" <=> BadScope)

\* A scope with a .. segment was refused.
C18_Witness ==
    /\ probe.fn = "ValidatePolicyConfigurationScope" /\ probe.pc = "done"
    /\ probe.input = <<"/", "etc", "/", "..", ":", "notlatest">>
    /\ probe.out /= "nil"

\* C19: a signature made by Sign for a manifest that can be digested, a fully
\* qualified reference and a key the mechanism knows is verified against the
\* same manifest, reference and key: Verify succeeds, and the verified
\* signature has that reference and the digest of the manifest.
Verifying == probe.fn = "SignDockerManifest" /\ probe.pc = "done"
SameArguments ==
    /\ probe.input.tamper = "none"
    /\ probe.input.vm = probe.input.m
    /\ probe.input.vref = probe.input.ref
    /\ probe.input.vkey = probe.input.key
C19_SignVerifyRoundTrip ==
    /\ (Verifying
          /\ probe.input.m /= "invalid-signatures.manifest"
          /\ probe.input.ref \notin {<<>>, <<"busybox">>}
          /\ probe.input.key /= "unexpected fingerprint") =>
            probe.out.signed.err = "nil"
    /\ (Verifying /\ probe.out.signed.err = "nil" /\ SameArguments) =>
          /\ probe.out.verified.err = "nil"
          /\ probe.out.verified.sig =
                << [DockerReference |-> probe.input.ref,
                    DockerManifestDigest |-> <<"sha256", probe.input.m>>] >>

\* A signature was made and verified against the arguments it was made for.
C19_Witness ==
    /\ Verifying /\ SameArguments
    /\ probe.out.signed.err = "nil"
    /\ probe.out.verified.err = "nil"

\* C20: Verify gives a signature only when the manifest was digested, the
\* signature authenticated, its envelope parsed, its signer is the expected
\* key, and its reference and digest are the expected reference and the
\* digest of the manifest; in every other case it gives no signature and an
\* error.
Verified == Verifying /\ probe.out.signed.err = "nil"
C20_VerifyFailClosed ==
    Verified =>
        /\ probe.out.verified.sig /= <<>> =>
              /\ probe.input.vm /= "invalid-signatures.manifest"
              /\ probe.input.tamper = "none"
              /\ probe.input.vkey = probe.input.key
              /\ probe.input.vref = probe.input.ref
              /\ probe.input.vm = probe.input.m
              /\ probe.out.verified.err = "nil"
        /\ probe.out.verified.sig = <<>> => probe.out.verified.err /= "nil"
        /\ probe.out.verified.err /= "nil" => probe.out.verified.sig = <<>>

\* An intact signature was verified against another key, and refused.
C20_Witness ==
    /\ Verified
    /\ probe.input.tamper = "none"
    /\ probe.input.vm = probe.input.m /\ probe.input.vref = probe.input.ref
    /\ probe.input.vkey \in KnownKeys /\ probe.input.vkey /= probe.input.key
    /\ probe.out.verified.sig = <<>>
    /\ probe.out.verified.err = "KeyMismatch"

\* C21: for a signature that authenticates and parses, verified against a
\* manifest that can be digested, when exactly one expectation disagrees
\* Verify fails with the error of that expectation: KeyMismatch for the key
\* identity, ReferenceMismatch for the reference, DigestMismatch for the
\* manifest.
Authentic ==
    /\ Verified
    /\ probe.input.tamper = "none"
    /\ probe.input.vm /= "invalid-signatures.manifest"
KeyAgrees == probe.input.vkey = probe.input.key
ReferenceAgrees == probe.input.vref = probe.input.ref
ManifestAgrees == probe.input.vm = probe.input.m
C21_MismatchErrorKinds ==
    Authentic =>
        /\ (~KeyAgrees /\ ReferenceAgrees /\ ManifestAgrees) =>
              probe.out.verified = [sig |-> <<>>, err |-> "KeyMismatch"]
        /\ (KeyAgrees /\ ~ReferenceAgrees /\ ManifestAgrees) =>
              probe.out.verified = [sig |-> <<>>, err |-> "ReferenceMismatch"]
        /\ (KeyAgrees /\ ReferenceAgrees /\ ~ManifestAgrees) =>
              probe.out.verified = [sig |-> <<>>, err |-> "DigestMismatch"]

\* A signature was verified against another reference only, and refused for
\* the reference.
C21_Witness ==
    /\ Authentic
    /\ KeyAgrees /\ ~ReferenceAgrees /\ ManifestAgrees
    /\ FullyQualified(probe.input.vref)
    /\ probe.out.verified.err = "ReferenceMismatch"

\* C22: when the manifest cannot be digested Verify fails with
\* ManifestDigestError, whether the signature is intact, corrupt, no envelope
\* or of another key: the digest is computed before the signature is looked at.
C22_DigestErrorFirst ==
    (Verified /\ probe.input.vm = "invalid-signatures.manifest") =>
        probe.out.verified = [sig |-> <<>>, err |-> "ManifestDigestError"]

\* A corrupt signature was verified against a manifest that cannot be
\* digested.
C22_Witness ==
    /\ Verified
    /\ probe.input.vm = "invalid-signatures.manifest"
    /\ probe.input.tamper = "corrupt"
    /\ probe.out.verified.err = "ManifestDigestError"

\* C23: in a Get of the proxy manifest store, AddManifest (for the
\* repository) and AddBlob (for the manifest's digest) are called only after
\* the manifest came from the remote store and the local Put of it succeeded;
\* a Get served from the local store calls neither the scheduler nor the
\* remote store; a Get whose local Put failed returns an error and has called
\* no scheduler.
Scheduling == {"scheduler.AddManifest", "scheduler.AddBlob"}
CalledAt(i, callee, ok) ==
    pget.trace[i][1] = callee /\ pget.trace[i][3] = ok
HasCalled(callee, ok) == \E i \in DOMAIN pget.trace : CalledAt(i, callee, ok)
HasScheduled == \E i \in DOMAIN pget.trace : pget.trace[i][1] \in Scheduling
C23_ScheduleOnlyAfterRemoteAndPut ==
    /\ \A i \in DOMAIN pget.trace :
          pget.trace[i][1] \in Scheduling =>
              /\ \E j \in 1..(i - 1) : \E k \in (j + 1)..(i - 1) :
                    /\ CalledAt(j, "remoteManifests.Get", TRUE)
                    /\ CalledAt(k, "localManifests.Put", TRUE)
              /\ pget.trace[i][1] = "scheduler.AddManifest" =>
                    pget.trace[i][2] = repositoryName
              /\ pget.trace[i][1] = "scheduler.AddBlob" =>
                    pget.trace[i][2] = pget.dgst
    /\ HasCalled("localManifests.Get", TRUE) =>
          /\ ~HasScheduled
          /\ \A i \in DOMAIN pget.trace : pget.trace[i][1] /= "remoteManifests.Get"
    /\ HasCalled("localManifests.Put", FALSE) =>
          /\ ~HasScheduled
          /\ pget.pc = "done" => (pget.err /= "nil" /\ pget.manifest = <<>>)

\* A Get fetched the manifest from the remote store, put it into the local
\* store and scheduled the removals.
C23_Witness ==
    /\ pget.pc = "done" /\ pget.err = "nil"
    /\ HasCalled("remoteManifests.Get", TRUE)
    /\ HasCalled("localManifests.Put", TRUE)
    /\ HasCalled("scheduler.AddManifest", TRUE)
    /\ HasCalled("scheduler.AddBlob", TRUE)
    /\ <<"blob", pget.dgst>> \in scheduler

====
